---------------------------- MODULE Spec2Model ----------------------------
(***************************************************************************)
(* Model of src/download_files.py: FileDownloader.sync_files and the       *)
(* methods it calls (get_remote_files, get_local_files,                    *)
(* calculate_checksum, download_file, ungzip_file).                        *)
(*                                                                         *)
(* One run of main() is one sync cycle.  sync_files is cut into its four   *)
(* sequential steps (fetch + emptiness test, scan + plan, download of one  *)
(* item, decompression of one item); the program is single threaded, so    *)
(* the steps never interleave with anything else.                          *)
(*                                                                         *)
(* File names are sequences of characters, so that str.rstrip is computed  *)
(* as Python computes it.  File contents are sequences of bytes.  The      *)
(* network (requests) and gzip are the environment: the outcome of each    *)
(* request is chosen nondeterministically among the outcomes the code      *)
(* distinguishes.  Local I/O faults (disk full, permissions) and the       *)
(* appends loguru makes to download.log are not modelled.                  *)
(***************************************************************************)
EXTENDS Integers, Sequences, FiniteSets, TLC

\* ------------------------------------------------------------------ bounds
\* Longest catalog the remote API returns.
MaxCatalogLen == 2
\* Number of runs of main() (sync cycles) explored.
MaxCycles == 2

\* --------------------------------------------------------------- constants
\* Names of the files the remote catalog may list.
NameAGz  == <<"a", ".", "g", "z">>
NameAgGz == <<"a", "g", ".", "g", "z">>
NameZGz  == <<"z", ".", "g", "z">>
\* setup_logging: the log file lives in the download directory.
LogName  == <<"d", "o", "w", "n", "l", "o", "a", "d", ".", "l", "o", "g">>
LogContent == <<76>>

\* The descriptors {file_name, download_url} the API may serve.
Descriptors ==
    { [file_name |-> NameAGz,  download_url |-> "http://x/a"],
      [file_name |-> NameAGz,  download_url |-> "http://y/a"],
      [file_name |-> NameAgGz, download_url |-> "http://x/ag"],
      [file_name |-> NameZGz,  download_url |-> "http://x/z"] }

RECURSIVE SeqsUpTo(_, _)
SeqsUpTo(S, n) ==
    IF n = 0 THEN { <<>> }
    ELSE LET shorter == SeqsUpTo(S, n - 1)
         IN  shorter \cup { Append(s, x) : s \in { t \in shorter : Len(t) = n - 1 }, x \in S }

Catalogs == SeqsUpTo(Descriptors, MaxCatalogLen)

\* Response bodies of the download endpoint, as the chunks iter_content yields.
\* A gzip member is modelled as the header 1F 8B 08, literal bytes (1..127,
\* each expanding to itself), and the end-of-stream marker 0; a byte above 127
\* is a corrupt block.
GzipMagic   == <<31, 139>>
BodyGzipOk  == << <<31, 139, 8>>, <<65, 0>> >>
BodyGzipBad == << <<31, 139, 8>>, <<65, 255>> >>
BodyPlain   == << <<80, 75>> >>
Bodies      == { BodyGzipOk, BodyGzipBad, BodyPlain }

\* The outcomes of the manifest request.
ManifestResponses(cat) ==
    { [kind |-> "transport_error", has_key |-> FALSE, download_status |-> <<>>],
      [kind |-> "http_error",      has_key |-> FALSE, download_status |-> <<>>],
      [kind |-> "malformed_body",  has_key |-> FALSE, download_status |-> <<>>],
      [kind |-> "json",            has_key |-> FALSE, download_status |-> <<>>],
      [kind |-> "json",            has_key |-> TRUE,  download_status |-> <<>>],
      [kind |-> "json",            has_key |-> TRUE,  download_status |-> cat] }

\* ------------------------------------------------------------------- state
VARIABLES
    catalog,            \* what the remote API lists (fixed: no remote change)
    pc,                 \* position in main()/sync_files
    status,             \* the last logged outcome
    manifest,           \* value returned by get_remote_files
    remote_files,       \* sync_files local
    local_files,        \* sync_files local: name -> checksum
    files_to_download,  \* sync_files local: the plan
    i,                  \* index of the plan's item being processed
    download_dir,       \* name -> content
    export_dir,         \* name -> content
    runs                \* history: per cycle, the plan and what happened to it

vars == << catalog, pc, status, manifest, remote_files, local_files,
           files_to_download, i, download_dir, export_dir, runs >>

NoFiles == << >>
NoManifest == [type |-> "none", has_key |-> FALSE, download_status |-> <<>>]

cycle == Len(runs)

\* ------------------------------------------------------------ pure helpers
RECURSIVE Flatten(_)
Flatten(chunks) ==
    IF chunks = <<>> THEN <<>> ELSE Head(chunks) \o Flatten(Tail(chunks))

\* str.rstrip(chars): drops every trailing character that is in chars.
RECURSIVE rstrip(_, _)
rstrip(s, chars) ==
    IF s # <<>> /\ s[Len(s)] \in chars
    THEN rstrip(SubSeq(s, 1, Len(s) - 1), chars)
    ELSE s

\* file_path.name.rstrip('.gz')
ExportName(name) == rstrip(name, {".", "g", "z"})

\* hashlib.sha256 of the whole content: a digest that determines the content.
calculate_checksum(content) == [sha256 |-> content]

\* get_local_files: every regular file of the download directory.
get_local_files(dir) == [n \in DOMAIN dir |-> calculate_checksum(dir[n])]

\* get_remote_files: the parsed body, or [] on requests.RequestException.
get_remote_files(resp) ==
    IF resp.kind = "json"
    THEN [type |-> "dict", has_key |-> resp.has_key,
          download_status |-> resp.download_status]
    ELSE [type |-> "list", has_key |-> FALSE, download_status |-> <<>>]

\* dict.get("download_status", [])
DictGet(m) == IF m.has_key THEN m.download_status ELSE <<>>

\* The planning loop of sync_files (lines 143-147).
RECURSIVE PlanFrom(_, _, _)
PlanFrom(rf, lf, acc) ==
    IF rf = <<>> THEN acc
    ELSE PlanFrom(Tail(rf), lf,
                  IF Head(rf).file_name \notin DOMAIN lf
                  THEN Append(acc, Head(rf)) ELSE acc)

\* (variant: files_to_download.insert(0, file_info))
PlanReversed(rf, lf) ==
    [k \in 1 .. Len(PlanFrom(rf, lf, <<>>)) |->
        PlanFrom(rf, lf, <<>>)[Len(PlanFrom(rf, lf, <<>>)) + 1 - k]]

\* (variant: the presence test left out)
PlanAll(rf, lf) == rf

Plan(rf, lf) == PlanFrom(rf, lf, <<>>)

\* gzip.open + shutil.copyfileobj: the bytes expanded before the stream ends
\* or fails, and whether it ended with the end-of-stream marker.
RECURSIVE Inflate(_, _)
Inflate(payload, out) ==
    IF payload = <<>> THEN [ok |-> FALSE, out |-> out]
    ELSE IF Head(payload) = 0 THEN [ok |-> TRUE, out |-> out]
    ELSE IF Head(payload) > 127 THEN [ok |-> FALSE, out |-> out]
    ELSE Inflate(Tail(payload), Append(out, Head(payload)))

Expand(content) ==
    IF Len(content) >= 3 /\ SubSeq(content, 1, 3) = <<31, 139, 8>>
    THEN Inflate(SubSeq(content, 4, Len(content)), <<>>)
    ELSE [ok |-> FALSE, out |-> <<>>]

\* (variant: f.read(1))
ReadFirstByte(content) == SubSeq(content, 1, IF Len(content) < 1 THEN Len(content) ELSE 1)

\* f.read(2)
ReadMagic(content) == SubSeq(content, 1, IF Len(content) < 2 THEN Len(content) ELSE 2)

\* ungzip_file(download_dir / name): the value returned, the outcome logged
\* and the export directory afterwards.
ungzip_file(name, ddir, edir) ==
    IF name \notin DOMAIN ddir
    THEN [ret |-> FALSE, outcome |-> "missing", wrote |-> FALSE, export |-> edir]
    ELSE IF ReadMagic(ddir[name]) # GzipMagic
    THEN [ret |-> TRUE, outcome |-> "not_gzip", wrote |-> FALSE, export |-> edir]
    ELSE IF ExportName(name) = <<>>
    THEN \* open("<export_dir>/", 'wb') raises IsADirectoryError
         [ret |-> FALSE, outcome |-> "decompress_failed", wrote |-> FALSE,
          export |-> edir]
    ELSE \* the output is opened 'wb' (created or truncated) before the first read
         LET x == Expand(ddir[name])
         IN  [ret |-> x.ok,
              outcome |-> IF x.ok THEN "decompressed" ELSE "decompress_failed",
              wrote |-> TRUE,
              export |-> (ExportName(name) :> x.out) @@ edir]

\* (variant: the source is unlinked once read, as gunzip does)
SourceUnlinked(name, ddir) == [n \in DOMAIN ddir \ {name} |-> ddir[n]]

\* ungzip_file only reads its source: the download directory afterwards.
SourceAfterUngzip(name, ddir) == ddir

\* with open(file_path, 'wb') as f: f.write(data) for every chunk received.
StreamInto(dir, name, chunks) == (name :> Flatten(chunks)) @@ dir

\* (variant: the except branch unlinks the incomplete file)
AbortedStreamCleanup(dir, name, written) == [n \in DOMAIN dir \ {name} |-> dir[n]]

\* The same with open, left by the exception iter_content raised after the
\* chunks in written: the file stays as it is.
AbortedStream(dir, name, written) == (name :> Flatten(written)) @@ dir

\* ----------------------------------------------------------------- actions
Init ==
    /\ catalog \in Catalogs
    /\ pc = "idle"
    /\ status = "constructed"
    /\ manifest = NoManifest
    /\ remote_files = <<>>
    /\ local_files = NoFiles
    /\ files_to_download = <<>>
    /\ i = 0
    /\ download_dir = (LogName :> LogContent)
    /\ export_dir = NoFiles
    /\ runs = <<>>

NewRun == [planned |-> FALSE, plan |-> <<>>, results |-> <<>>, unzips |-> <<>>]

\* (variant: no "if not remote_files" test)
AfterFetchNoCheck(m) == IF m.type = "list" THEN "raised" ELSE "scan"

\* Where sync_files goes after remote_files is bound (lines 135-138).
AfterFetch(m) ==
    IF m.type = "list" THEN "raised"          \* [].get: AttributeError
    ELSE IF DictGet(m) = <<>> THEN "done"     \* "No files found"
    ELSE "scan"

\* main(): construct the downloader, enter sync_files, fetch the manifest.
SyncStart ==
    /\ pc \in {"idle", "done", "raised"}
    /\ cycle < MaxCycles
    /\ \E resp \in ManifestResponses(catalog) :
         LET m == get_remote_files(resp)
         IN  /\ manifest' = m
             /\ status' = resp.kind
             /\ remote_files' = IF m.type = "dict" THEN DictGet(m) ELSE <<>>
             /\ pc' = AfterFetch(m)
    /\ local_files' = NoFiles
    /\ files_to_download' = <<>>
    /\ i' = 0
    /\ runs' = Append(runs, NewRun)
    /\ UNCHANGED << catalog, download_dir, export_dir >>

\* Lines 140-149: the inventory and the plan.
ScanAndPlan ==
    /\ pc = "scan"
    /\ local_files' = get_local_files(download_dir)
    /\ files_to_download' = Plan(remote_files, local_files')
    /\ i' = 1
    /\ pc' = IF files_to_download' = <<>> THEN "done" ELSE "download"
    /\ status' = "planned"
    /\ runs' = [runs EXCEPT ![cycle].planned = TRUE,
                            ![cycle].plan = files_to_download']
    /\ UNCHANGED << catalog, manifest, remote_files, download_dir, export_dir >>

NextItem(k) == IF k + 1 > Len(files_to_download) THEN "done" ELSE "download"

\* (variant: download_file lets the exception through)
AfterDownloadAbort(ret) ==
    /\ pc' = IF ret THEN "ungzip" ELSE "raised"
    /\ i' = i

\* The for loop's control after download_file returned ret (line 152).
AfterDownload(ret) ==
    /\ pc' = IF ret THEN "ungzip" ELSE NextItem(i)
    /\ i' = IF ret THEN i ELSE i + 1

Record(result) ==
    runs' = [runs EXCEPT ![cycle].results =
                Append(@, [idx |-> i, result |-> result])]

\* download_file: session.get raises (connect error, timeout).
DownloadConnectError ==
    /\ pc = "download"
    /\ status' = "connect_error"
    /\ AfterDownload(FALSE)
    /\ Record("nofile")
    /\ UNCHANGED << catalog, manifest, remote_files, local_files,
                    files_to_download, download_dir, export_dir >>

\* download_file: raise_for_status raises HTTPError.
DownloadHttpError ==
    /\ pc = "download"
    /\ status' = "http_error"
    /\ AfterDownload(FALSE)
    /\ Record("nofile")
    /\ UNCHANGED << catalog, manifest, remote_files, local_files,
                    files_to_download, download_dir, export_dir >>

\* download_file: the file is opened 'wb', k chunks are written, then
\* iter_content raises.
DownloadStreamError ==
    /\ pc = "download"
    /\ \E body \in Bodies : \E k \in 0 .. (Len(body) - 1) :
         download_dir' =
            AbortedStream(download_dir, files_to_download[i].file_name,
                          SubSeq(body, 1, k))
    /\ status' = "stream_error"
    /\ AfterDownload(FALSE)
    /\ Record("partial")
    /\ UNCHANGED << catalog, manifest, remote_files, local_files,
                    files_to_download, export_dir >>

\* download_file: every chunk is written.
DownloadOk ==
    /\ pc = "download"
    /\ \E body \in Bodies :
         download_dir' =
            StreamInto(download_dir, files_to_download[i].file_name, body)
    /\ status' = "downloaded"
    /\ AfterDownload(TRUE)
    /\ Record("ok")
    /\ UNCHANGED << catalog, manifest, remote_files, local_files,
                    files_to_download, export_dir >>

\* (variant: the loop stops at the first failed decompression)
AfterUngzipBreak(ret) ==
    /\ pc' = IF ret THEN NextItem(i) ELSE "done"
    /\ i' = i + 1

\* The for loop's control after ungzip_file returned (line 155): the value
\* returned is ignored.
AfterUngzip(ret) ==
    /\ pc' = NextItem(i)
    /\ i' = i + 1

\* Lines 153-155.
Ungzip ==
    /\ pc = "ungzip"
    /\ LET r == ungzip_file(files_to_download[i].file_name, download_dir, export_dir)
       IN  /\ export_dir' = r.export
           /\ status' = r.outcome
           /\ AfterUngzip(r.ret)
           /\ runs' = [runs EXCEPT ![cycle].unzips =
                          Append(@, [idx |-> i, ret |-> r.ret])]
    /\ download_dir' = SourceAfterUngzip(files_to_download[i].file_name, download_dir)
    /\ UNCHANGED << catalog, manifest, remote_files, local_files, files_to_download >>

Next ==
    \/ SyncStart
    \/ ScanAndPlan
    \/ DownloadConnectError
    \/ DownloadHttpError
    \/ DownloadStreamError
    \/ DownloadOk
    \/ Ungzip

Spec == Init /\ [][Next]_vars

\* ------------------------------------------------------- properties
\* Cycle c has returned (or raised).
Finished(c) == c < cycle \/ pc \in {"done", "raised"}

PlanNames(c) == { runs[c].plan[j].file_name : j \in DOMAIN runs[c].plan }

InPlan(c, d) == \E j \in DOMAIN runs[c].plan : runs[c].plan[j] = d

\* Some download of cycle c opened the file named n.
Created(c, n) ==
    \E j \in DOMAIN runs[c].results :
        /\ runs[c].plan[j].file_name = n
        /\ runs[c].results[j].result \in {"ok", "partial"}

\* The gzip signature, byte by byte.
HasSignature(content) ==
    Len(content) >= 2 /\ content[1] = 31 /\ content[2] = 139

\* n without a trailing ".gz" suffix.
StripGzSuffix(n) ==
    IF Len(n) >= 3 /\ n[Len(n) - 2] = "." /\ n[Len(n) - 1] = "g" /\ n[Len(n)] = "z"
    THEN SubSeq(n, 1, Len(n) - 3)
    ELSE n

AllNames == { d.file_name : d \in Descriptors } \cup { LogName }

CompleteContents == { Flatten(b) : b \in Bodies }

\* The item the last step of the loop handled.
LastItem == files_to_download[i - 1]

\* ---- C1
\* The catalog positions whose file name is not a key of the inventory.
Missing ==
    { j \in DOMAIN remote_files : remote_files[j].file_name \notin DOMAIN local_files }

KthMissing(k) ==
    CHOOSE j \in Missing : Cardinality({ m \in Missing : m < j }) = k - 1

C2_ManifestFailureIsNoWork ==
    (cycle >= 1 /\ manifest.type = "list") =>
        /\ pc = "done"
        /\ runs[cycle].results = <<>>
        /\ runs[cycle].unzips = <<>>

\* ---- C3
\* C3: a cycle that planned never raises, attempts every item of its plan
\* once whatever failed before it, and an item whose own transfer succeeded is
\* in the download directory when the cycle ends.
C3_FailureIsolation ==
    \A c \in 1 .. Len(runs) :
        LET P == runs[c].plan
            R == runs[c].results
        IN  /\ (runs[c].planned /\ c = cycle) => pc # "raised"
            /\ (runs[c].planned /\ Finished(c)) =>
                   /\ Len(R) = Len(P)
                   /\ \A j \in DOMAIN R :
                         /\ R[j].idx = j
                         /\ R[j].result = "ok" =>
                               P[j].file_name \in DOMAIN download_dir

\* The first of two items fails mid-stream, the second is downloaded.
C3_Witness ==
    /\ cycle >= 1 /\ pc = "done" /\ runs[cycle].planned
    /\ Len(runs[cycle].plan) = 2
    /\ runs[cycle].plan[1].file_name # runs[cycle].plan[2].file_name
    /\ Len(runs[cycle].results) = 2
    /\ runs[cycle].results[1].result = "partial"
    /\ runs[cycle].results[2].result = "ok"
    /\ runs[cycle].plan[2].file_name \in DOMAIN download_dir

ShortCircuit(m) == m.type = "dict" /\ DictGet(m) = <<>>

C6_WritesIffSignatureAndSuccess ==
    \A n \in AllNames :
        LET r == ungzip_file(n, download_dir, export_dir)
            present == n \in DOMAIN download_dir
            sig == present /\ HasSignature(download_dir[n])
        IN  /\ r.wrote <=> (sig /\ r.ret)
            /\ (present /\ ~sig) => (~r.wrote /\ r.ret /\ r.export = export_dir)
            /\ ~present => ~r.ret
            /\ (sig /\ ~Expand(download_dir[n]).ok) => ~r.ret

\* C6 amended: the output file is created (or truncated) iff the source starts
\* with 1F 8B and the output path can be opened, also when the expansion then
\* fails: it then holds what was expanded before the failure and failure is
\* reported.  Success with the signature means the whole expansion is in the
\* output.  Without the signature nothing is written and success is reported;
\* a missing source reports failure.
C6_CreatesOutputIffSignature ==
    \A n \in AllNames :
        LET r == ungzip_file(n, download_dir, export_dir)
            present == n \in DOMAIN download_dir
            sig == present /\ HasSignature(download_dir[n])
        IN  /\ r.wrote <=> (sig /\ ExportName(n) # <<>>)
            /\ r.wrote => /\ ExportName(n) \in DOMAIN r.export
                          /\ r.export[ExportName(n)] = Expand(download_dir[n]).out
                          /\ \A m \in DOMAIN export_dir \ {ExportName(n)} :
                                m \in DOMAIN r.export /\ r.export[m] = export_dir[m]
            /\ ~r.wrote => r.export = export_dir
            /\ sig => (r.ret <=> (r.wrote /\ Expand(download_dir[n]).ok))
            /\ (present /\ ~sig) => r.ret
            /\ ~present => ~r.ret

\* The first decompression of the first cycle failed on a corrupt stream and
\* its output file is in the export directory.
C6_Witness ==
    /\ cycle = 1
    /\ status = "decompress_failed"
    /\ Len(runs[1].unzips) = 1
    /\ HasSignature(download_dir[LastItem.file_name])
    /\ ~Expand(download_dir[LastItem.file_name]).ok
    /\ ExportName(LastItem.file_name) \in DOMAIN export_dir

\* ---- C7
\* C7: after a decompression, the output is named as the source without a
\* trailing ".gz", and the export directory holds no other kind of name.
C7_OutputNameIsGzSuffixRemoved ==
    status = "decompressed" =>
        /\ StripGzSuffix(LastItem.file_name) \in DOMAIN export_dir
        /\ DOMAIN export_dir \subseteq
               { StripGzSuffix(m) : m \in DOMAIN download_dir }

C9_OneAtATimeInOrder ==
    \A c \in 1 .. Len(runs) :
        LET P == runs[c].plan
            R == runs[c].results
            U == runs[c].unzips
        IN  /\ Len(R) <= Len(P)
            /\ \A j \in DOMAIN R : R[j].idx = j
            /\ \A k \in DOMAIN U :
                  /\ U[k].idx \in DOMAIN R
                  /\ R[U[k].idx].result = "ok"
                  /\ \A k2 \in DOMAIN U : k < k2 => U[k].idx < U[k2].idx
            /\ \A j \in DOMAIN R :
                  (R[j].result = "ok" /\ (j < Len(R) \/ Finished(c)))
                      => \E k \in DOMAIN U : U[k].idx = j
            /\ (runs[c].planned /\ Finished(c)) => Len(R) = Len(P)
            /\ (c = cycle /\ pc = "download") => (i = Len(R) + 1 /\ i <= Len(P))
            /\ (c = cycle /\ pc = "ungzip") =>
                  /\ i = Len(R)
                  /\ R[i].result = "ok"
                  /\ \A k \in DOMAIN U : U[k].idx # i

\* The first item's decompression failed and the second item was still attempted.
C9_Witness ==
    /\ cycle >= 1 /\ pc = "done" /\ runs[cycle].planned
    /\ Len(runs[cycle].plan) = 2
    /\ Len(runs[cycle].results) = 2
    /\ runs[cycle].unzips = << [idx |-> 1, ret |-> FALSE] >>
    /\ runs[cycle].results[2].result = "nofile"

\* ---- C10
\* C10 as stated: a download that failed mid-stream leaves its file, and no
\* later cycle plans that name; a download that failed before the file was
\* opened leaves no file, and the next cycle that plans plans the item again.
C10_PartialStaysNoFileReplanned ==
    \A c \in 1 .. Len(runs) : \A j \in DOMAIN runs[c].results :
        LET d == runs[c].plan[j]
            n == d.file_name
            res == runs[c].results[j].result
        IN  /\ res = "partial" =>
                  /\ n \in DOMAIN download_dir
                  /\ \A c2 \in (c + 1) .. Len(runs) : n \notin PlanNames(c2)
            /\ res = "nofile" =>
                  /\ (c = cycle) => n \notin DOMAIN download_dir
                  /\ (c + 1 <= Len(runs) /\ runs[c + 1].planned) => InPlan(c + 1, d)

\* The last download of cycle c for the name n.
LastFor(c, n) ==
    CHOOSE j \in DOMAIN runs[c].results :
        /\ runs[c].plan[j].file_name = n
        /\ \A j2 \in DOMAIN runs[c].results :
              runs[c].plan[j2].file_name = n => j2 <= j

\* C10 amended: the second half holds unless another item of the same cycle
\* with the same file name opened the file.  (First half: the file left by a
\* mid-stream failure stays; once the cycle ended with it incomplete, it is
\* incomplete for ever, and no later cycle plans, fetches or decompresses it.)
C10_PartialStaysNoFileReplannedUnlessDuplicate ==
    \A c \in 1 .. Len(runs) : \A j \in DOMAIN runs[c].results :
        LET d == runs[c].plan[j]
            n == d.file_name
            res == runs[c].results[j].result
        IN  /\ res = "partial" =>
                  /\ n \in DOMAIN download_dir
                  /\ \A c2 \in (c + 1) .. Len(runs) : n \notin PlanNames(c2)
                  /\ (LastFor(c, n) = j /\ (j < Len(runs[c].results) \/ Finished(c)))
                        => download_dir[n] \notin CompleteContents
            /\ (res = "nofile" /\ ~Created(c, n)) =>
                  /\ (c = cycle) => n \notin DOMAIN download_dir
                  /\ (c + 1 <= Len(runs) /\ runs[c + 1].planned) => InPlan(c + 1, d)

\* Cycle 1 left one file incomplete and failed to connect for another; cycle 2
\* plans the second only.
C10_Witness ==
    /\ Len(runs) = 2
    /\ runs[1].planned /\ Len(runs[1].results) = 2
    /\ runs[1].results[1].result = "partial"
    /\ runs[1].results[2].result = "nofile"
    /\ runs[1].plan[1].file_name # runs[1].plan[2].file_name
    /\ runs[2].planned
    /\ runs[2].plan = << runs[1].plan[2] >>
    /\ download_dir[runs[1].plan[1].file_name] \notin CompleteContents

=============================================================================
